---- MODULE Spec2Model ----
(***************************************************************************)
(* mlevels: streaming methylation-level summary.                           *)
(*                                                                         *)
(* The module models src/src/lib.rs: the Wilson score interval, the        *)
(* LevelsCounter accumulator (update / set_derived_values) and the         *)
(* run_mlevels driver loop with its CpG mate-pairing state.                *)
(*                                                                         *)
(* f64 values are modelled in two ways:                                    *)
(*   - quantities of the Wilson interval are fixed-point integers in units *)
(*     of 1/Scale (floor rounding, integer square root);                   *)
(*   - mean_agg and the derived ratios are exact fractions <<num, den>>,   *)
(*     where den = 0 stands for the IEEE results of a division by zero:    *)
(*     <<0, 0>> is NaN (0.0/0.0) and <<1, 0>> is +infinity (x/0.0, x > 0). *)
(***************************************************************************)
EXTENDS Integers, Sequences, FiniteSets, TLC

\* ------------------------------------------------------------- bounds
\* largest n_reads of a site given to update in the counter specification
MaxReads == 4
\* methylation fractions of input sites are k/MethDen, k in 0..MethDen
MethDen == 2
\* number of update calls explored on one counter
MaxUpdates == 3
\* number of input lines explored by the driver
MaxLines == 3
\* read depth of the covered sites of the driver specification
RunReads == 2
\* largest trial count explored for the Wilson interval
MaxTrials == 100
\* observed proportions of the Wilson specification are k/PropDen
PropDen == 20

\* fixed-point unit of the Wilson arithmetic (four decimal digits)
Scale == 10^4

\* ------------------------------------------------------------- f64 as fractions
RECURSIVE GCD(_, _)
GCD(a, b) == IF b = 0 THEN a ELSE GCD(b, a % b)

Frac(n, d) ==
    IF d = 0 THEN (IF n = 0 THEN <<0, 0>> ELSE <<1, 0>>)
    ELSE IF n = 0 THEN <<0, 1>>
    ELSE <<n \div GCD(n, d), d \div GCD(n, d)>>

FZero == <<0, 1>>
FNaN == <<0, 0>>
FInf == <<1, 0>>
IsFinite(x) == x[2] # 0

\* x + y on f64
FAdd(x, y) ==
    IF x = FNaN \/ y = FNaN THEN FNaN
    ELSE IF x = FInf \/ y = FInf THEN FInf
    ELSE Frac(x[1] * y[2] + y[1] * x[2], x[2] * y[2])

\* x / (k as f64) on f64, k an unsigned integer
FDivInt(x, k) ==
    IF x = FNaN THEN FNaN
    ELSE IF x = FInf THEN FInf
    ELSE Frac(x[1], x[2] * k)

\* fixed-point value (units of 1/Scale) of a fraction in [0, 1]
ToFixed(x) == (x[1] * Scale) \div x[2]

\* floor of the square root, by bisection on lo..hi
RECURSIVE SqrtIter(_, _, _)
SqrtIter(x, lo, hi) ==
    IF lo >= hi THEN lo
    ELSE LET mid == (lo + hi + 1) \div 2
         IN  IF mid * mid <= x THEN SqrtIter(x, mid, hi)
             ELSE SqrtIter(x, lo, mid - 1)

Sqrt(x) == SqrtIter(x, 0, 46340)

\* ------------------------------------------------------------- Wilson interval
\* significance levels explored, in units of 1/Scale
Alphas == {100, 500, 1000, 2000, 5000, 9000}

\* Normal(0,1).inverse_cdf(x) for x = 1 - alpha/2, both in units of 1/Scale
InverseCdf(x) ==
    CASE x = 9950 -> 25758
      [] x = 9750 -> 19600
      [] x = 9500 -> 16449
      [] x = 9000 -> 12816
      [] x = 7500 -> 6745
      [] x = 5500 -> 1257

\* alpha, p_hat and the result in units of 1/Scale; n a positive integer
\* the interval whose centre is not divided by denom
wilson_centre_undivided(alpha, n, p_hat) ==
    LET z == InverseCdf(Scale - alpha \div 2)
        zz == (z * z) \div Scale
        denom == Scale + zz \div n
        first_term == p_hat + zz \div (2 * n)
        discriminant == (p_hat * (Scale - p_hat)) \div n + (zz * Scale) \div (4 * n * n)
        second_term == (z * Sqrt(discriminant)) \div denom
        lo == first_term - second_term
        up == first_term + second_term
    IN  [lower |-> IF lo < 0 THEN 0 ELSE lo,
         upper |-> IF up > Scale THEN Scale ELSE up]

wilson_ci_for_binomial(alpha, n, p_hat) ==
    LET z == InverseCdf(Scale - alpha \div 2)
        zz == (z * z) \div Scale
        denom == Scale + zz \div n
        first_term == ((p_hat + zz \div (2 * n)) * Scale) \div denom
        \* kept in units of 1/Scale^2 so that the square root is in 1/Scale
        discriminant == (p_hat * (Scale - p_hat)) \div n + (zz * Scale) \div (4 * n * n)
        second_term == (z * Sqrt(discriminant)) \div denom
        lo == first_term - second_term
        up == first_term + second_term
    IN  [lower |-> IF lo < 0 THEN 0 ELSE lo,
         upper |-> IF up > Scale THEN Scale ELSE up]

\* ------------------------------------------------------------- site records
\* msite::MSite as the program reads it.  parse is the outcome of
\* MSite::build on the line; ctx decides is_cpg/is_chh/is_ccg/is_cxg
\* ("N" matches none); mate is the outcome of prev_site.is_mate_of(site)
\* for the record that immediately precedes this one in the stream.
Contexts == {"CpG", "CHH", "CCG", "CXG", "N"}

MSite(ctx, mutated, n_reads, meth, mate) ==
    [parse |-> TRUE, ctx |-> ctx, mutated |-> mutated, n_reads |-> n_reads,
     meth |-> meth, mate |-> mate]

\* MSite::new()
NewSite == MSite("N", FALSE, 0, FZero, FALSE)

\* a line MSite::build rejects
BadLine == [parse |-> FALSE, ctx |-> "N", mutated |-> FALSE, n_reads |-> 0,
            meth |-> FZero, mate |-> FALSE]

is_mutated(s) == s.mutated
is_cpg(s) == s.ctx = "CpG"
is_chh(s) == s.ctx = "CHH"
is_ccg(s) == s.ctx = "CCG"
is_cxg(s) == s.ctx = "CXG"

\* round(meth * n_reads), halves away from zero
n_meth(s) == (2 * s.meth[1] * s.n_reads + s.meth[2]) \div (2 * s.meth[2])

\* prev_site.add(&site): read counts and methylated read counts summed
add(p, s) ==
    LET n == p.n_reads + s.n_reads
        m == n_meth(p) + n_meth(s)
    IN  [p EXCEPT !.n_reads = n,
                  !.meth = IF n = 0 THEN FZero ELSE Frac(m, n)]

\* prev_site.is_mate_of(&site): the outcome carried by the later record
is_mate_of(p, s) == s.mate

\* ------------------------------------------------------------- LevelsCounter
\* LevelsCounter::default()
NewCounter ==
    [total_sites |-> 0, sites_covered |-> 0, total_c |-> 0, total_t |-> 0,
     max_depth |-> 0, mutations |-> 0, called_meth |-> 0, called_unmeth |-> 0,
     mean_agg |-> FZero,
     coverage |-> 0, sites_covered_fraction |-> FZero, mean_depth |-> FZero,
     mean_depth_covered |-> FZero, mean_meth |-> FZero,
     mean_meth_weighted |-> FZero, fractional_meth |-> FZero]

RawFields == {"total_sites", "sites_covered", "total_c", "total_t", "max_depth",
              "mutations", "called_meth", "called_unmeth", "mean_agg"}
DerivedFields == {"coverage", "sites_covered_fraction", "mean_depth",
                  "mean_depth_covered", "mean_meth", "mean_meth_weighted",
                  "fractional_meth"}

\* LevelsCounter::ALPHA = 0.05, in units of 1/Scale
ALPHA == 500

Max(a, b) == IF a >= b THEN a ELSE b

\* update that returns early for a mutated site, before counting it
update_mutated_uncounted(self, s) ==
    LET ci == wilson_ci_for_binomial(ALPHA, s.n_reads, ToFixed(s.meth))
        half == Scale \div 2
    IN  IF is_mutated(s) THEN
            [self EXCEPT !.mutations = @ + 1]
        ELSE IF s.n_reads > 0 THEN
            [self EXCEPT !.sites_covered = @ + 1,
                         !.max_depth = Max(@, s.n_reads),
                         !.total_c = @ + n_meth(s),
                         !.total_t = @ + (s.n_reads - n_meth(s)),
                         !.mean_agg = FAdd(@, s.meth),
                         !.called_meth = IF ci.lower > half THEN @ + 1 ELSE @,
                         !.called_unmeth = IF ci.upper < half THEN @ + 1 ELSE @,
                         !.total_sites = @ + 1]
        ELSE [self EXCEPT !.total_sites = @ + 1]

\* update whose second test compares the upper bound the wrong way round
update_upper_reversed(self, s) ==
    LET ci == wilson_ci_for_binomial(ALPHA, s.n_reads, ToFixed(s.meth))
        half == Scale \div 2
        branch ==
            IF is_mutated(s) THEN
                [self EXCEPT !.mutations = @ + 1]
            ELSE IF s.n_reads > 0 THEN
                [self EXCEPT !.sites_covered = @ + 1,
                             !.max_depth = Max(@, s.n_reads),
                             !.total_c = @ + n_meth(s),
                             !.total_t = @ + (s.n_reads - n_meth(s)),
                             !.mean_agg = FAdd(@, s.meth),
                             !.called_meth = IF ci.lower > half THEN @ + 1 ELSE @,
                             !.called_unmeth = IF ci.upper > half THEN @ + 1 ELSE @]
            ELSE self
    IN  [branch EXCEPT !.total_sites = @ + 1]

\* update that takes a site without reads for a mutated one
update_noreads_as_mutation(self, s) ==
    LET ci == wilson_ci_for_binomial(ALPHA, s.n_reads, ToFixed(s.meth))
        half == Scale \div 2
        branch ==
            IF is_mutated(s) \/ s.n_reads = 0 THEN
                [self EXCEPT !.mutations = @ + 1]
            ELSE
                [self EXCEPT !.sites_covered = @ + 1,
                             !.max_depth = Max(@, s.n_reads),
                             !.total_c = @ + n_meth(s),
                             !.total_t = @ + (s.n_reads - n_meth(s)),
                             !.mean_agg = FAdd(@, s.meth),
                             !.called_meth = IF ci.lower > half THEN @ + 1 ELSE @,
                             !.called_unmeth = IF ci.upper < half THEN @ + 1 ELSE @]
    IN  [branch EXCEPT !.total_sites = @ + 1]

\* update that tests the read count before the mutation flag
update_reads_first(self, s) ==
    LET ci == wilson_ci_for_binomial(ALPHA, s.n_reads, ToFixed(s.meth))
        half == Scale \div 2
        branch ==
            IF s.n_reads > 0 THEN
                [self EXCEPT !.sites_covered = @ + 1,
                             !.max_depth = Max(@, s.n_reads),
                             !.total_c = @ + n_meth(s),
                             !.total_t = @ + (s.n_reads - n_meth(s)),
                             !.mean_agg = FAdd(@, s.meth),
                             !.called_meth = IF ci.lower > half THEN @ + 1 ELSE @,
                             !.called_unmeth = IF ci.upper < half THEN @ + 1 ELSE @]
            ELSE IF is_mutated(s) THEN
                [self EXCEPT !.mutations = @ + 1]
            ELSE self
    IN  [branch EXCEPT !.total_sites = @ + 1]

\* update that calls a site methylated on the upper bound of the interval
update_meth_on_upper(self, s) ==
    LET ci == wilson_ci_for_binomial(ALPHA, s.n_reads, ToFixed(s.meth))
        half == Scale \div 2
        branch ==
            IF is_mutated(s) THEN
                [self EXCEPT !.mutations = @ + 1]
            ELSE IF s.n_reads > 0 THEN
                [self EXCEPT !.sites_covered = @ + 1,
                             !.max_depth = Max(@, s.n_reads),
                             !.total_c = @ + n_meth(s),
                             !.total_t = @ + (s.n_reads - n_meth(s)),
                             !.mean_agg = FAdd(@, s.meth),
                             !.called_meth = IF ci.upper > half THEN @ + 1 ELSE @,
                             !.called_unmeth = IF ci.upper < half THEN @ + 1 ELSE @]
            ELSE self
    IN  [branch EXCEPT !.total_sites = @ + 1]

\* update that stores the depth of the last covered site as max_depth
update_depth_of_last(self, s) ==
    LET ci == wilson_ci_for_binomial(ALPHA, s.n_reads, ToFixed(s.meth))
        half == Scale \div 2
        branch ==
            IF is_mutated(s) THEN
                [self EXCEPT !.mutations = @ + 1]
            ELSE IF s.n_reads > 0 THEN
                [self EXCEPT !.sites_covered = @ + 1,
                             !.max_depth = s.n_reads,
                             !.total_c = @ + n_meth(s),
                             !.total_t = @ + (s.n_reads - n_meth(s)),
                             !.mean_agg = FAdd(@, s.meth),
                             !.called_meth = IF ci.lower > half THEN @ + 1 ELSE @,
                             !.called_unmeth = IF ci.upper < half THEN @ + 1 ELSE @]
            ELSE self
    IN  [branch EXCEPT !.total_sites = @ + 1]

\* update that does not count the unmethylated reads
update_total_t_dropped(self, s) ==
    LET ci == wilson_ci_for_binomial(ALPHA, s.n_reads, ToFixed(s.meth))
        half == Scale \div 2
        branch ==
            IF is_mutated(s) THEN
                [self EXCEPT !.mutations = @ + 1]
            ELSE IF s.n_reads > 0 THEN
                [self EXCEPT !.sites_covered = @ + 1,
                             !.max_depth = Max(@, s.n_reads),
                             !.total_c = @ + n_meth(s),
                             !.total_t = @,
                             !.mean_agg = FAdd(@, s.meth),
                             !.called_meth = IF ci.lower > half THEN @ + 1 ELSE @,
                             !.called_unmeth = IF ci.upper < half THEN @ + 1 ELSE @]
            ELSE self
    IN  [branch EXCEPT !.total_sites = @ + 1]

\* update that also refreshes the derived field coverage
update_refreshes_coverage(self, s) ==
    LET ci == wilson_ci_for_binomial(ALPHA, s.n_reads, ToFixed(s.meth))
        half == Scale \div 2
        branch ==
            IF is_mutated(s) THEN
                [self EXCEPT !.mutations = @ + 1]
            ELSE IF s.n_reads > 0 THEN
                [self EXCEPT !.sites_covered = @ + 1,
                             !.max_depth = Max(@, s.n_reads),
                             !.total_c = @ + n_meth(s),
                             !.total_t = @ + (s.n_reads - n_meth(s)),
                             !.mean_agg = FAdd(@, s.meth),
                             !.called_meth = IF ci.lower > half THEN @ + 1 ELSE @,
                             !.called_unmeth = IF ci.upper < half THEN @ + 1 ELSE @,
                             !.coverage = self.total_c + self.total_t + s.n_reads]
            ELSE self
    IN  [branch EXCEPT !.total_sites = @ + 1]

update(self, s) ==
    LET ci == wilson_ci_for_binomial(ALPHA, s.n_reads, ToFixed(s.meth))
        half == Scale \div 2
        branch ==
            IF is_mutated(s) THEN
                [self EXCEPT !.mutations = @ + 1]
            ELSE IF s.n_reads > 0 THEN
                [self EXCEPT !.sites_covered = @ + 1,
                             !.max_depth = Max(@, s.n_reads),
                             !.total_c = @ + n_meth(s),
                             !.total_t = @ + (s.n_reads - n_meth(s)),
                             !.mean_agg = FAdd(@, s.meth),
                             !.called_meth = IF ci.lower > half THEN @ + 1 ELSE @,
                             !.called_unmeth = IF ci.upper < half THEN @ + 1 ELSE @]
            ELSE self
    IN  [branch EXCEPT !.total_sites = @ + 1]

get_coverage(self) == self.total_c + self.total_t
get_total_called(self) == self.called_meth + self.called_unmeth
get_mean_meth_weighted(self) == Frac(self.total_c, get_coverage(self))
get_fractional_meth(self) == Frac(self.called_meth, get_total_called(self))
get_mean_meth(self) == FDivInt(self.mean_agg, self.sites_covered)

\* set_derived_values without the guard on sites_covered
set_derived_values_unguarded(self) ==
    LET cov == get_coverage(self)
    IN  [self EXCEPT
            !.coverage = cov,
            !.sites_covered_fraction = Frac(self.sites_covered, self.total_sites),
            !.mean_depth = Frac(cov, self.total_sites),
            !.mean_depth_covered = Frac(cov, self.sites_covered),
            !.mean_meth = get_mean_meth(self),
            !.mean_meth_weighted = get_mean_meth_weighted(self),
            !.fractional_meth = IF get_total_called(self) > 0
                                THEN get_fractional_meth(self)
                                ELSE FZero]

\* set_derived_values that adds the coverage to the stored one
set_derived_values_accumulating(self) ==
    LET cov == get_coverage(self)
    IN  [self EXCEPT
            !.coverage = self.coverage + cov,
            !.sites_covered_fraction = Frac(self.sites_covered, self.total_sites),
            !.mean_depth = Frac(cov, self.total_sites),
            !.mean_depth_covered = Frac(cov, self.sites_covered),
            !.mean_meth = IF self.sites_covered # 0 THEN get_mean_meth(self)
                          ELSE FZero,
            !.mean_meth_weighted = IF self.sites_covered # 0
                                   THEN get_mean_meth_weighted(self)
                                   ELSE FZero,
            !.fractional_meth = IF get_total_called(self) > 0
                                THEN get_fractional_meth(self)
                                ELSE FZero]

set_derived_values(self) ==
    LET cov == get_coverage(self)
    IN  [self EXCEPT
            !.coverage = cov,
            !.sites_covered_fraction = Frac(self.sites_covered, self.total_sites),
            !.mean_depth = Frac(cov, self.total_sites),
            !.mean_depth_covered = Frac(cov, self.sites_covered),
            !.mean_meth = IF self.sites_covered # 0 THEN get_mean_meth(self)
                          ELSE FZero,
            !.mean_meth_weighted = IF self.sites_covered # 0
                                   THEN get_mean_meth_weighted(self)
                                   ELSE FZero,
            !.fractional_meth = IF get_total_called(self) > 0
                                THEN get_fractional_meth(self)
                                ELSE FZero]

\* ------------------------------------------------------------- run_mlevels
\* struct LC: the six counters
CounterNames == {"cytosine", "cpg", "cpg_symmetric", "chh", "ccg", "cxg"}
NewLC == [k \in CounterNames |-> NewCounter]

\* One iteration of the loop over the lines of the counts file.  The result
\* holds the new values of the locals, whether process::exit(1) was called,
\* the observations passed to lc.cpg_symmetric.update (sym) and the
\* argument pairs of the is_mate_of calls made (tested).
\* the loop body that passes the current site, not the merged one, to the
\* symmetric counter
loop_body_sym_unmerged(lc0, prev0, prev_cpg0, line) ==
    LET site == line
        lc1 == [lc0 EXCEPT !.cytosine = update(@, site)]
        lc2 == [lc1 EXCEPT !.cpg = update(@, site)]
        res(l, pc, ex, sy, te) ==
            [lc |-> l, prev_site |-> IF ex THEN prev0 ELSE site,
             prev_is_cpg |-> pc, exit |-> ex, sym |-> sy, tested |-> te]
    IN  IF ~line.parse THEN
            res(lc0, prev_cpg0, TRUE, <<>>, <<>>)
        ELSE IF is_cpg(site) THEN
            IF prev_cpg0 /\ is_mate_of(prev0, site) THEN
                res([lc2 EXCEPT !.cpg_symmetric = update(@, site)],
                    FALSE, FALSE, <<site>>, <<(<<prev0, site>>)>>)
            ELSE
                res(lc2, TRUE, FALSE, <<>>,
                    IF prev_cpg0 THEN <<(<<prev0, site>>)>> ELSE <<>>)
        ELSE IF is_chh(site) THEN
            res([lc1 EXCEPT !.chh = update(@, site)], prev_cpg0, FALSE, <<>>, <<>>)
        ELSE IF is_ccg(site) THEN
            res([lc1 EXCEPT !.ccg = update(@, site)], prev_cpg0, FALSE, <<>>, <<>>)
        ELSE IF is_cxg(site) THEN
            res([lc1 EXCEPT !.cxg = update(@, site)], prev_cpg0, FALSE, <<>>, <<>>)
        ELSE
            res(lc1, prev_cpg0, TRUE, <<>>, <<>>)

\* the loop body that skips a line it cannot parse
loop_body_skip_unparsed(lc0, prev0, prev_cpg0, line) ==
    LET site == line
        lc1 == [lc0 EXCEPT !.cytosine = update(@, site)]
        lc2 == [lc1 EXCEPT !.cpg = update(@, site)]
        merged == add(prev0, site)
        res(l, pc, ex, sy, te) ==
            [lc |-> l, prev_site |-> IF ex THEN prev0 ELSE site,
             prev_is_cpg |-> pc, exit |-> ex, sym |-> sy, tested |-> te]
    IN  IF ~line.parse THEN
            [lc |-> lc0, prev_site |-> prev0, prev_is_cpg |-> prev_cpg0,
             exit |-> FALSE, sym |-> <<>>, tested |-> <<>>]
        ELSE IF is_cpg(site) THEN
            IF prev_cpg0 /\ is_mate_of(prev0, site) THEN
                res([lc2 EXCEPT !.cpg_symmetric = update(@, merged)],
                    FALSE, FALSE, <<merged>>, <<(<<prev0, site>>)>>)
            ELSE
                res(lc2, TRUE, FALSE, <<>>,
                    IF prev_cpg0 THEN <<(<<prev0, site>>)>> ELSE <<>>)
        ELSE IF is_chh(site) THEN
            res([lc1 EXCEPT !.chh = update(@, site)], prev_cpg0, FALSE, <<>>, <<>>)
        ELSE IF is_ccg(site) THEN
            res([lc1 EXCEPT !.ccg = update(@, site)], prev_cpg0, FALSE, <<>>, <<>>)
        ELSE IF is_cxg(site) THEN
            res([lc1 EXCEPT !.cxg = update(@, site)], prev_cpg0, FALSE, <<>>, <<>>)
        ELSE
            res(lc1, prev_cpg0, TRUE, <<>>, <<>>)

\* the loop body without the final else: a site of no context is only
\* counted as a cytosine
loop_body_no_bad_type(lc0, prev0, prev_cpg0, line) ==
    LET site == line
        lc1 == [lc0 EXCEPT !.cytosine = update(@, site)]
        lc2 == [lc1 EXCEPT !.cpg = update(@, site)]
        merged == add(prev0, site)
        res(l, pc, ex, sy, te) ==
            [lc |-> l, prev_site |-> IF ex THEN prev0 ELSE site,
             prev_is_cpg |-> pc, exit |-> ex, sym |-> sy, tested |-> te]
    IN  IF ~line.parse THEN
            res(lc0, prev_cpg0, TRUE, <<>>, <<>>)
        ELSE IF is_cpg(site) THEN
            IF prev_cpg0 /\ is_mate_of(prev0, site) THEN
                res([lc2 EXCEPT !.cpg_symmetric = update(@, merged)],
                    FALSE, FALSE, <<merged>>, <<(<<prev0, site>>)>>)
            ELSE
                res(lc2, TRUE, FALSE, <<>>,
                    IF prev_cpg0 THEN <<(<<prev0, site>>)>> ELSE <<>>)
        ELSE IF is_chh(site) THEN
            res([lc1 EXCEPT !.chh = update(@, site)], prev_cpg0, FALSE, <<>>, <<>>)
        ELSE IF is_ccg(site) THEN
            res([lc1 EXCEPT !.ccg = update(@, site)], prev_cpg0, FALSE, <<>>, <<>>)
        ELSE IF is_cxg(site) THEN
            res([lc1 EXCEPT !.cxg = update(@, site)], prev_cpg0, FALSE, <<>>, <<>>)
        ELSE
            res(lc1, prev_cpg0, FALSE, <<>>, <<>>)

\* the loop body whose ccg branch updates the chh counter
loop_body_ccg_as_chh(lc0, prev0, prev_cpg0, line) ==
    LET site == line
        lc1 == [lc0 EXCEPT !.cytosine = update(@, site)]
        lc2 == [lc1 EXCEPT !.cpg = update(@, site)]
        merged == add(prev0, site)
        res(l, pc, ex, sy, te) ==
            [lc |-> l, prev_site |-> IF ex THEN prev0 ELSE site,
             prev_is_cpg |-> pc, exit |-> ex, sym |-> sy, tested |-> te]
    IN  IF ~line.parse THEN
            res(lc0, prev_cpg0, TRUE, <<>>, <<>>)
        ELSE IF is_cpg(site) THEN
            IF prev_cpg0 /\ is_mate_of(prev0, site) THEN
                res([lc2 EXCEPT !.cpg_symmetric = update(@, merged)],
                    FALSE, FALSE, <<merged>>, <<(<<prev0, site>>)>>)
            ELSE
                res(lc2, TRUE, FALSE, <<>>,
                    IF prev_cpg0 THEN <<(<<prev0, site>>)>> ELSE <<>>)
        ELSE IF is_chh(site) THEN
            res([lc1 EXCEPT !.chh = update(@, site)], prev_cpg0, FALSE, <<>>, <<>>)
        ELSE IF is_ccg(site) THEN
            res([lc1 EXCEPT !.chh = update(@, site)], prev_cpg0, FALSE, <<>>, <<>>)
        ELSE IF is_cxg(site) THEN
            res([lc1 EXCEPT !.cxg = update(@, site)], prev_cpg0, FALSE, <<>>, <<>>)
        ELSE
            res(lc1, prev_cpg0, TRUE, <<>>, <<>>)

\* the loop body that leaves prev_is_cpg set after a merge
loop_body_flag_kept(lc0, prev0, prev_cpg0, line) ==
    LET site == line
        lc1 == [lc0 EXCEPT !.cytosine = update(@, site)]
        lc2 == [lc1 EXCEPT !.cpg = update(@, site)]
        merged == add(prev0, site)
        res(l, pc, ex, sy, te) ==
            [lc |-> l, prev_site |-> IF ex THEN prev0 ELSE site,
             prev_is_cpg |-> pc, exit |-> ex, sym |-> sy, tested |-> te]
    IN  IF ~line.parse THEN
            res(lc0, prev_cpg0, TRUE, <<>>, <<>>)
        ELSE IF is_cpg(site) THEN
            IF prev_cpg0 /\ is_mate_of(prev0, site) THEN
                res([lc2 EXCEPT !.cpg_symmetric = update(@, merged)],
                    TRUE, FALSE, <<merged>>, <<(<<prev0, site>>)>>)
            ELSE
                res(lc2, TRUE, FALSE, <<>>,
                    IF prev_cpg0 THEN <<(<<prev0, site>>)>> ELSE <<>>)
        ELSE IF is_chh(site) THEN
            res([lc1 EXCEPT !.chh = update(@, site)], prev_cpg0, FALSE, <<>>, <<>>)
        ELSE IF is_ccg(site) THEN
            res([lc1 EXCEPT !.ccg = update(@, site)], prev_cpg0, FALSE, <<>>, <<>>)
        ELSE IF is_cxg(site) THEN
            res([lc1 EXCEPT !.cxg = update(@, site)], prev_cpg0, FALSE, <<>>, <<>>)
        ELSE
            res(lc1, prev_cpg0, TRUE, <<>>, <<>>)

loop_body(lc0, prev0, prev_cpg0, line) ==
    LET site == line
        lc1 == [lc0 EXCEPT !.cytosine = update(@, site)]
        lc2 == [lc1 EXCEPT !.cpg = update(@, site)]
        merged == add(prev0, site)
        res(l, pc, ex, sy, te) ==
            [lc |-> l, prev_site |-> IF ex THEN prev0 ELSE site,
             prev_is_cpg |-> pc, exit |-> ex, sym |-> sy, tested |-> te]
    IN  IF ~line.parse THEN
            res(lc0, prev_cpg0, TRUE, <<>>, <<>>)
        ELSE IF is_cpg(site) THEN
            IF prev_cpg0 /\ is_mate_of(prev0, site) THEN
                res([lc2 EXCEPT !.cpg_symmetric = update(@, merged)],
                    FALSE, FALSE, <<merged>>, <<(<<prev0, site>>)>>)
            ELSE
                res(lc2, TRUE, FALSE, <<>>,
                    IF prev_cpg0 THEN <<(<<prev0, site>>)>> ELSE <<>>)
        ELSE IF is_chh(site) THEN
            res([lc1 EXCEPT !.chh = update(@, site)], prev_cpg0, FALSE, <<>>, <<>>)
        ELSE IF is_ccg(site) THEN
            res([lc1 EXCEPT !.ccg = update(@, site)], prev_cpg0, FALSE, <<>>, <<>>)
        ELSE IF is_cxg(site) THEN
            res([lc1 EXCEPT !.cxg = update(@, site)], prev_cpg0, FALSE, <<>>, <<>>)
        ELSE
            res(lc1, prev_cpg0, TRUE, <<>>, <<>>)

\* the six set_derived_values calls after the loop
\* the calls after the loop without the one on cpg_symmetric
finish_skips_symmetric(lc0) ==
    [k \in CounterNames |->
        IF k = "cpg_symmetric" THEN lc0[k] ELSE set_derived_values(lc0[k])]

finish(lc0) == [k \in CounterNames |-> set_derived_values(lc0[k])]

\* ------------------------------------------------------------- state
VARIABLES
    \* run_mlevels
    pc,            \* "start", "loop", "derived", "done" or "exit"
    status,        \* process exit status, -1 while running
    out_created,   \* File::create(output) succeeded
    out,           \* the reports written to the output file
    lc, prev_site, prev_is_cpg,
    hist,          \* the lines read so far
    symObs,        \* the observations passed to lc.cpg_symmetric.update
    mateTests,     \* the <<prev_site, site>> pairs given to is_mate_of
    stream,        \* the counts file of the scenario specification
    \* one LevelsCounter under update / set_derived_values calls
    ctr,
    arg,           \* the site of the last update call
    lastOp,        \* "none", "update" or "derive"
    nupd,          \* number of update calls
    uncovered,     \* number of update calls with a non-mutated site without reads
    seen,          \* reads and largest depth of the covered sites given to update
    \* one call of wilson_ci_for_binomial
    wcall

runVars == <<pc, status, out_created, out, lc, prev_site, prev_is_cpg, hist,
             symObs, mateTests, stream>>
ctrVars == <<ctr, arg, lastOp, nupd, uncovered, seen>>
vars == <<runVars, ctrVars, wcall>>

InitRun ==
    /\ pc = "start" /\ status = -1 /\ out_created = FALSE /\ out = <<>>
    /\ lc = NewLC /\ prev_site = NewSite /\ prev_is_cpg = FALSE
    /\ hist = <<>> /\ symObs = <<>> /\ mateTests = <<>>

InitCtr ==
    /\ ctr = NewCounter /\ arg = NewSite /\ lastOp = "none"
    /\ nupd = 0 /\ uncovered = 0
    /\ seen = [reads |-> 0, deepest |-> 0]

InitWilson == wcall = [alpha |-> 0, n |-> 0, p_hat |-> 0, lower |-> 0, upper |-> 0]

\* ------------------------------------------------------------- driver actions
\* File::open(input) and File::create(output), lines 189-199
OpenFiles ==
    /\ pc = "start"
    /\ \E in_ok \in BOOLEAN, out_ok \in BOOLEAN :
          /\ out_created' = (in_ok /\ out_ok)
          /\ pc' = IF in_ok /\ out_ok THEN "loop" ELSE "exit"
          /\ status' = IF in_ok /\ out_ok THEN status ELSE 1
    /\ UNCHANGED <<out, lc, prev_site, prev_is_cpg, hist, symObs, mateTests, stream>>
    /\ UNCHANGED <<ctrVars, wcall>>

\* one iteration of the for loop on the given line
ProcessLine(line) ==
    /\ pc = "loop"
    /\ LET r == loop_body(lc, prev_site, prev_is_cpg, line)
       IN  /\ lc' = r.lc
           /\ prev_site' = r.prev_site
           /\ prev_is_cpg' = r.prev_is_cpg
           /\ pc' = IF r.exit THEN "exit" ELSE "loop"
           /\ status' = IF r.exit THEN 1 ELSE status
           /\ symObs' = symObs \o r.sym
           /\ mateTests' = mateTests \o r.tested
    /\ hist' = Append(hist, line)
    /\ UNCHANGED <<out_created, out, stream>>
    /\ UNCHANGED <<ctrVars, wcall>>

\* end of the lines iterator: lines 253-258
Finalize ==
    /\ pc = "loop"
    /\ lc' = finish(lc)
    /\ pc' = "derived"
    /\ UNCHANGED <<status, out_created, out, prev_site, prev_is_cpg, hist, symObs,
                   mateTests, stream>>
    /\ UNCHANGED <<ctrVars, wcall>>

\* line 260, then ExitCode::SUCCESS of main
WriteReport ==
    /\ pc = "derived"
    /\ out' = Append(out, lc)
    /\ pc' = "done"
    /\ status' = 0
    /\ UNCHANGED <<out_created, lc, prev_site, prev_is_cpg, hist, symObs,
                   mateTests, stream>>
    /\ UNCHANGED <<ctrVars, wcall>>

\* the lines the driver specification draws from: an unparseable line; a CpG
\* site, mutated or without reads or with RunReads reads that are all
\* unmethylated or all methylated, mate of its predecessor or not; for each
\* other context a mutated site and a covered one; a site of no context
RunDepths == {<<0, FZero>>, <<RunReads, FZero>>, <<RunReads, <<1, 1>> >>}
CpGSites ==
    { MSite("CpG", FALSE, d[1], d[2], ma) : d \in RunDepths, ma \in BOOLEAN }
    \cup { MSite("CpG", TRUE, RunReads, FZero, ma) : ma \in BOOLEAN }
OtherSites ==
    { MSite(x, mu, RunReads, <<1, 1>>, FALSE) :
        x \in Contexts \ {"CpG", "N"}, mu \in BOOLEAN }
    \cup { MSite("N", FALSE, RunReads, <<1, 1>>, FALSE) }
Lines == {BadLine} \cup CpGSites \cup OtherSites

ReadLine ==
    /\ Len(hist) < MaxLines
    /\ \E line \in Lines : ProcessLine(line)

\* ------------------------------------------------------------- counter actions
\* the read counts of the sites given to update: none, one, and the two
\* largest ones
ReadDepths == {0, 1, MaxReads - 1, MaxReads}
\* the sites given to update: non-mutated with any methylation fraction of
\* the grid, or mutated
CounterSites ==
    { MSite("CHH", FALSE, n, Frac(k, MethDen), FALSE) :
        n \in ReadDepths, k \in 0..MethDen }
    \cup { MSite("CHH", TRUE, n, <<1, 1>>, FALSE) : n \in ReadDepths }

UpdateCall ==
    /\ nupd < MaxUpdates
    /\ \E s \in CounterSites :
          /\ ctr' = update(ctr, s)
          /\ arg' = s
          /\ uncovered' = IF ~is_mutated(s) /\ s.n_reads = 0
                           THEN uncovered + 1 ELSE uncovered
          /\ seen' = IF ~is_mutated(s) /\ s.n_reads > 0
                      THEN [reads |-> seen.reads + s.n_reads,
                            deepest |-> Max(seen.deepest, s.n_reads)]
                      ELSE seen
    /\ lastOp' = "update"
    /\ nupd' = nupd + 1
    /\ UNCHANGED <<runVars, wcall>>

DeriveCall ==
    /\ ctr' = set_derived_values(ctr)
    /\ lastOp' = "derive"
    /\ UNCHANGED <<arg, nupd, uncovered, seen, runVars, wcall>>

\* ------------------------------------------------------------- Wilson action
WilsonCall ==
    /\ wcall.n = 0
    /\ \E a \in Alphas, n \in 1..MaxTrials, k \in 0..PropDen :
          LET p == (k * Scale) \div PropDen
              ci == wilson_ci_for_binomial(a, n, p)
          IN  wcall' = [alpha |-> a, n |-> n, p_hat |-> p,
                        lower |-> ci.lower, upper |-> ci.upper]
    /\ UNCHANGED <<runVars, ctrVars>>

\* ------------------------------------------------------------- specifications
Init == InitRun /\ stream = <<>> /\ InitCtr /\ InitWilson

\* the driver on every stream of at most MaxLines lines
Next == OpenFiles \/ ReadLine \/ Finalize \/ WriteReport
Spec == Init /\ [][Next]_vars

\* one counter under any sequence of calls
NextCounter == UpdateCall \/ DeriveCall
SpecCounter == Init /\ [][NextCounter]_vars

\* the interval estimator on a grid of inputs
NextWilson == WilsonCall
SpecWilson == Init /\ [][NextWilson]_vars

\* ------------------------------------------------------------- end-to-end scenario
\* a covered CHH site with 8 of 10 reads methylated and a covered CpG site
\* with 1 of 10, the CpG site not being the mate of its predecessor
ScenarioCHH == MSite("CHH", FALSE, 10, <<4, 5>>, FALSE)
ScenarioCpG == MSite("CpG", FALSE, 10, <<1, 10>>, FALSE)
\* a mutated site of any context, with or without reads
ScenarioMutated ==
    { s \in { MSite(x, TRUE, n, FZero, ma) :
                x \in Contexts \ {"N"}, n \in {0, 10}, ma \in BOOLEAN } :
        s.mate => is_cpg(s) }
\* the four records in any order
ScenarioStreams ==
    { [i \in 1..4 |-> <<m1, m2, ScenarioCHH, ScenarioCpG>>[f[i]]] :
        m1 \in ScenarioMutated, m2 \in ScenarioMutated,
        f \in { g \in [1..4 -> 1..4] : \A i, j \in 1..4 : g[i] = g[j] => i = j } }

InitScenario == InitRun /\ stream \in ScenarioStreams /\ InitCtr /\ InitWilson

ScenarioLine ==
    /\ Len(hist) < Len(stream)
    /\ ProcessLine(stream[Len(hist) + 1])

ScenarioEnd ==
    /\ Len(hist) = Len(stream)
    /\ Finalize

NextScenario == OpenFiles \/ ScenarioLine \/ ScenarioEnd \/ WriteReport
SpecScenario == InitScenario /\ [][NextScenario]_vars

\* ------------------------------------------------------------- properties of one counter
\* the step is an update call
IsUpdateStep == nupd' = nupd + 1

\* C1 (as stated): total_sites = sites_covered + mutations after any
\* sequence of update calls, sites without reads included.
C1_TotalIsCoveredPlusMutations ==
    ctr.total_sites = ctr.sites_covered + ctr.mutations

\* C1 (amended): total_sites = sites_covered + mutations + the number of
\* update calls made with a non-mutated site that has no reads.
C1_TotalCountsUncovered ==
    ctr.total_sites = ctr.sites_covered + ctr.mutations + uncovered

C1_Witness ==
    /\ nupd = 3
    /\ ctr.sites_covered = 1 /\ ctr.mutations = 1 /\ uncovered = 1

\* C5: no update call increments both called_meth and called_unmeth, and
\* called_meth + called_unmeth <= sites_covered in every state.
C5_CallsExclusive ==
    /\ [](ctr.called_meth + ctr.called_unmeth <= ctr.sites_covered)
    /\ [][~(/\ ctr'.called_meth > ctr.called_meth
            /\ ctr'.called_unmeth > ctr.called_unmeth)]_vars

C5_Witness ==
    /\ ctr.called_meth = 1 /\ ctr.called_unmeth = 1 /\ ctr.sites_covered = 3

\* C6: an update call with a non-mutated site without reads adds 1 to
\* total_sites and changes no other field, raw or derived.
C6_NoReadsOnlyTotal ==
    [][(IsUpdateStep /\ ~is_mutated(arg') /\ arg'.n_reads = 0)
         => ctr' = [ctr EXCEPT !.total_sites = @ + 1]]_vars

C6_Witness ==
    /\ lastOp = "update" /\ ~is_mutated(arg) /\ arg.n_reads = 0
    /\ ctr.sites_covered >= 1 /\ ctr.coverage >= 1

\* C7: an update call with a mutated site, whatever its read count, adds 1
\* to mutations and to total_sites and leaves the other raw fields unchanged.
C7_MutatedOnlyMutations ==
    [][(IsUpdateStep /\ is_mutated(arg'))
         => /\ ctr'.mutations = ctr.mutations + 1
            /\ ctr'.total_sites = ctr.total_sites + 1
            /\ \A f \in RawFields \ {"mutations", "total_sites"} :
                  ctr'[f] = ctr[f]]_vars

C7_Witness ==
    /\ lastOp = "update" /\ is_mutated(arg) /\ arg.n_reads > 0
    /\ ctr.sites_covered >= 1 /\ ctr.mutations >= 1

\* C8: right after set_derived_values, sites_covered = 0 gives mean_meth = 0
\* and mean_meth_weighted = 0, called_meth = called_unmeth = 0 gives
\* fractional_meth = 0, and none of the three is NaN or infinite.
C8_DerivedGuards ==
    lastOp = "derive" =>
        /\ ctr.sites_covered = 0 =>
              ctr.mean_meth = FZero /\ ctr.mean_meth_weighted = FZero
        /\ (ctr.called_meth = 0 /\ ctr.called_unmeth = 0) =>
              ctr.fractional_meth = FZero
        /\ IsFinite(ctr.mean_meth)
        /\ IsFinite(ctr.mean_meth_weighted)
        /\ IsFinite(ctr.fractional_meth)

C8_Witness ==
    /\ lastOp = "derive" /\ ctr.total_sites >= 2 /\ ctr.sites_covered = 0

\* the step is an update call with a non-mutated site that has reads
IsCoveredUpdateStep == IsUpdateStep /\ ~is_mutated(arg') /\ arg'.n_reads > 0

\* C15: update with a non-mutated site with reads adds 1 to sites_covered,
\* n_meth to total_c, n_reads - n_meth to total_t and raises max_depth to
\* n_reads if that is larger; so total_c + total_t is the sum of n_reads
\* over the non-mutated sites with reads and max_depth the largest of them.
C15_CoveredUpdateTotals ==
    /\ [](ctr.total_c + ctr.total_t = seen.reads /\ ctr.max_depth = seen.deepest)
    /\ [][IsCoveredUpdateStep =>
            /\ ctr'.sites_covered = ctr.sites_covered + 1
            /\ ctr'.total_c = ctr.total_c + n_meth(arg')
            /\ ctr'.total_t = ctr.total_t + (arg'.n_reads - n_meth(arg'))
            /\ ctr'.max_depth = Max(ctr.max_depth, arg'.n_reads)]_vars

C15_Witness ==
    /\ lastOp = "update" /\ ~is_mutated(arg) /\ arg.n_reads > 0
    /\ arg.n_reads < ctr.max_depth /\ n_meth(arg) > 0
    /\ ctr.sites_covered = 2 /\ ctr.mutations = 1

\* C16 (as stated): after set_derived_values, sites_covered_fraction,
\* mean_depth and mean_depth_covered are the results of divisions by a
\* nonzero denominator, whatever updates the counter received.
C16_RatiosNeverDivideByZero ==
    lastOp = "derive" =>
        /\ IsFinite(ctr.sites_covered_fraction)
        /\ IsFinite(ctr.mean_depth)
        /\ IsFinite(ctr.mean_depth_covered)

\* C17: the coverage of a counter is 0 exactly when sites_covered is 0, and
\* after set_derived_values mean_meth_weighted is 0 when the coverage is 0
\* and total_c / coverage otherwise.
C17_WeightedMeanGuardedByCoverage ==
    /\ (get_coverage(ctr) = 0) <=> (ctr.sites_covered = 0)
    /\ lastOp = "derive" =>
          ctr.mean_meth_weighted =
              IF ctr.coverage = 0 THEN FZero ELSE Frac(ctr.total_c, ctr.coverage)

C17_Witness ==
    /\ lastOp = "derive" /\ ctr.coverage > 0 /\ ctr.total_c > 0 /\ ctr.total_t > 0
    /\ uncovered > 0 /\ ctr.mean_meth_weighted # FZero

\* the raw fields that are integers
CountFields == RawFields \ {"mean_agg"}

\* C18: an update call decreases none of total_sites, sites_covered, total_c,
\* total_t, max_depth, mutations, called_meth, called_unmeth and changes no
\* derived field.
C18_UpdateMonotoneDerivedStale ==
    [][IsUpdateStep =>
          /\ \A f \in CountFields : ctr'[f] >= ctr[f]
          /\ \A f \in DerivedFields : ctr'[f] = ctr[f]]_vars

C18_Witness ==
    /\ lastOp = "update" /\ ctr.coverage > 0
    /\ ctr.coverage < ctr.total_c + ctr.total_t
    /\ ctr.max_depth > arg.n_reads /\ arg.n_reads > 0

\* C20: set_derived_values changes none of the nine raw fields, and a
\* second call right after it changes nothing at all.
C20_DeriveKeepsRawIdempotent ==
    /\ [](lastOp = "derive" => set_derived_values(ctr) = ctr)
    /\ [][(lastOp' = "derive" /\ ~IsUpdateStep) =>
            \A f \in RawFields : ctr'[f] = ctr[f]]_vars
    /\ [][(lastOp = "derive" /\ lastOp' = "derive") => ctr' = ctr]_vars

C20_Witness ==
    /\ lastOp = "derive" /\ ctr.coverage > 0 /\ ctr.mutations > 0
    /\ ctr.coverage = ctr.total_c + ctr.total_t /\ uncovered > 0
    /\ ctr.fractional_meth # FZero

\* ------------------------------------------------------------- properties of the driver
\* the first two lines are CpG records and the second is the mate of the first
FirstTwoAreMates ==
    /\ Len(hist) >= 2
    /\ hist[1].parse /\ is_cpg(hist[1])
    /\ hist[2].parse /\ is_cpg(hist[2])
    /\ is_mate_of(hist[1], hist[2])

\* the third line is a CpG record that is not the mate of the second
ThirdIsLoneCpG ==
    /\ Len(hist) = 3
    /\ hist[3].parse /\ is_cpg(hist[3]) /\ ~is_mate_of(hist[2], hist[3])

\* C2: on the stream [A, B] of two CpG mates the symmetric counter is
\* updated exactly once, with n_reads = A.n_reads + B.n_reads; on [A, B, A'],
\* A' a CpG that is no mate of B, it is still updated exactly once, and the
\* cpg counter has counted each record once.
C2_OneSymmetricUpdate ==
    /\ (Len(hist) = 2 /\ FirstTwoAreMates) =>
          /\ Len(symObs) = 1
          /\ symObs[1].n_reads = hist[1].n_reads + hist[2].n_reads
          /\ lc.cpg_symmetric.total_sites = 1
          /\ lc.cpg.total_sites = 2
    /\ (FirstTwoAreMates /\ ThirdIsLoneCpG) =>
          /\ Len(symObs) = 1
          /\ symObs[1].n_reads = hist[1].n_reads + hist[2].n_reads
          /\ lc.cpg_symmetric.total_sites = 1
          /\ lc.cpg.total_sites = 3

C2_Witness ==
    /\ pc = "done" /\ FirstTwoAreMates /\ ThirdIsLoneCpG
    /\ hist[1].n_reads > 0 /\ hist[2].n_reads > 0

\* C3: once a line has failed to parse the run has exited with status 1 and
\* nothing has been written to the output, however many lines preceded it.
C3_ParseFailureStops ==
    (\E i \in 1..Len(hist) : ~hist[i].parse) =>
        pc = "exit" /\ status = 1 /\ out = <<>>

C3_Witness ==
    /\ Len(hist) = 3 /\ ~hist[3].parse
    /\ lc.cytosine.total_sites = 2 /\ pc = "exit"

\* C4: once a parsed record matches none of the four contexts the run has
\* exited with status 1, nothing has been written, and that record is the
\* last one read.
C4_BadTypeStops ==
    \A i \in 1..Len(hist) :
        (hist[i].parse /\ ~is_cpg(hist[i]) /\ ~is_chh(hist[i])
                       /\ ~is_ccg(hist[i]) /\ ~is_cxg(hist[i])) =>
            pc = "exit" /\ status = 1 /\ out = <<>> /\ i = Len(hist)

C4_Witness ==
    /\ Len(hist) = 2 /\ hist[2].parse /\ hist[2].ctx = "N"
    /\ hist[1].parse /\ pc = "exit"

\* the record read by the step, and whether it went to the chh, ccg or cxg
\* counter
LineRead == hist'[Len(hist')]
ReadsNonCpG ==
    /\ pc = "loop" /\ Len(hist') = Len(hist) + 1
    /\ LineRead.parse
    /\ is_chh(LineRead) \/ is_ccg(LineRead) \/ is_cxg(LineRead)

\* a CpG record, a record of another context, a CpG record
CpGOtherCpG ==
    /\ Len(hist) = 3
    /\ \A i \in 1..3 : hist[i].parse
    /\ is_cpg(hist[1]) /\ is_cpg(hist[3])
    /\ is_chh(hist[2]) \/ is_ccg(hist[2]) \/ is_cxg(hist[2])

\* C11: a record that is not a CpG leaves prev_site and prev_is_cpg as they
\* were, so that on a stream [A, X, B], A and B CpG and X not, the one mate
\* test made is is_mate_of(A, B).
C11_NonCpGKeepsPairing ==
    /\ [][ReadsNonCpG => (prev_site' = prev_site /\ prev_is_cpg' = prev_is_cpg)]_vars
    /\ [](CpGOtherCpG => mateTests = <<(<<hist[1], hist[3]>>)>>)

\* C12: every mate test that succeeds, and so every observation given to
\* lc.cpg_symmetric.update, joins two records that were both read from the
\* input and classified as CpG.
C12_SymmetricMergesCpGOnly ==
    \A i \in 1..Len(mateTests) :
        is_mate_of(mateTests[i][1], mateTests[i][2]) =>
            /\ mateTests[i][1].parse /\ is_cpg(mateTests[i][1])
            /\ mateTests[i][2].parse /\ is_cpg(mateTests[i][2])
            /\ \E j \in 1..(Len(hist) - 1) :
                  hist[j] = mateTests[i][1] /\ hist[j + 1] = mateTests[i][2]

\* the number of records read that satisfy P
Count(P(_)) == Cardinality({i \in 1..Len(hist) : P(hist[i])})
SumOver(f) == lc.cpg[f] + lc.chh[f] + lc.ccg[f] + lc.cxg[f]

\* C13: while the run has not failed, every record read has been counted by
\* the cytosine counter and by exactly the counter of its context, so
\* cytosine.total_sites = cpg + chh + ccg + cxg total_sites = records read,
\* and mutations and sites_covered are partitioned the same way.
C13_RoutedToOneContext ==
    pc \in {"loop", "derived", "done"} =>
        /\ lc.cytosine.total_sites = Len(hist)
        /\ lc.cpg.total_sites = Count(is_cpg)
        /\ lc.chh.total_sites = Count(is_chh)
        /\ lc.ccg.total_sites = Count(is_ccg)
        /\ lc.cxg.total_sites = Count(is_cxg)
        /\ \A f \in {"total_sites", "mutations", "sites_covered"} :
              lc.cytosine[f] = SumOver(f)

C13_Witness ==
    /\ pc = "done" /\ Len(hist) = 3
    /\ lc.cpg.total_sites = 1 /\ lc.chh.total_sites = 1 /\ lc.ccg.total_sites = 1
    /\ lc.cytosine.mutations = 1 /\ lc.cytosine.sites_covered = 2

\* the derived fields of counter c are the ones its raw fields give
DerivedCurrent(c) ==
    /\ c.coverage = c.total_c + c.total_t
    /\ c.sites_covered_fraction = Frac(c.sites_covered, c.total_sites)
    /\ c.mean_depth = Frac(c.coverage, c.total_sites)
    /\ c.mean_depth_covered = Frac(c.coverage, c.sites_covered)

RawUnchanged(c, d) == \A f \in RawFields : c[f] = d[f]

\* C14: in a run that reaches the end of the stream the derived values of
\* all six counters are set in the one step that ends the loop, which makes
\* no update (a pending CpG adds nothing to cpg_symmetric); after it no
\* counter changes any more, and the report written is these counters.
C14_DerivedOnceAtEnd ==
    /\ [](pc \in {"derived", "done"} => \A k \in CounterNames : DerivedCurrent(lc[k]))
    /\ [](pc = "done" => out = <<lc>>)
    /\ [][(pc = "loop" /\ pc' = "derived") =>
            /\ symObs' = symObs
            /\ \A k \in CounterNames : RawUnchanged(lc'[k], lc[k])]_vars
    /\ [][(pc \in {"derived", "done"}) =>
            (lc' = lc /\ symObs' = symObs /\ hist' = hist /\ pc' # "loop")]_vars
    /\ [][out' # out => pc = "derived"]_vars

C14_Witness ==
    /\ pc = "done" /\ prev_is_cpg /\ Len(symObs) = 1
    /\ out[1].cpg_symmetric.coverage > 0 /\ out[1].cpg.total_sites = 3

\* C19: a merge happens only with a site pending and leaves none pending,
\* no merge happens while none is pending, and the symmetric counter holds
\* at most half as many observations as the CpG counter.
C19_MergeClearsPending ==
    /\ [](2 * lc.cpg_symmetric.total_sites <= lc.cpg.total_sites)
    /\ [](lc.cpg_symmetric.total_sites = Len(symObs))
    /\ [][Len(symObs') > Len(symObs) =>
            (prev_is_cpg /\ ~prev_is_cpg' /\ Len(symObs') = Len(symObs) + 1)]_vars
    /\ [][~prev_is_cpg => symObs' = symObs]_vars

C19_Witness ==
    /\ FirstTwoAreMates /\ Len(hist) = 3 /\ hist[3].parse /\ is_cpg(hist[3])
    /\ hist[3].mate /\ Len(symObs) = 1 /\ prev_is_cpg /\ lc.cpg.total_sites = 3

\* ------------------------------------------------------------- end-to-end scenario
\* no record of the scenario is the mate of its predecessor
NoMates == \A i \in 1..Len(stream) : ~stream[i].mate

ScenarioCounts(chh_called_meth) ==
    /\ Len(out) = 1
    /\ out[1].cytosine.total_sites = 4
    /\ out[1].cytosine.mutations = 2
    /\ out[1].cytosine.sites_covered = 2
    /\ out[1].chh.sites_covered = 1
    /\ out[1].chh.called_meth = chh_called_meth
    /\ out[1].cpg.sites_covered = 1
    /\ out[1].cpg.called_unmeth = 1
    /\ out[1].cpg_symmetric.total_sites = 0

\* C9 (as stated): the report of the four-record scenario has
\* cytosine.total_sites = 4, cytosine.mutations = 2, cytosine.sites_covered = 2,
\* chh.sites_covered = 1, chh.called_meth = 1, cpg.sites_covered = 1,
\* cpg.called_unmeth = 1 and cpg_symmetric.total_sites = 0.
C9_ScenarioCallsCHH == (pc = "done" /\ NoMates) => ScenarioCounts(1)

\* C9 (amended): the same report, but with chh.called_meth = 0: the lower
\* Wilson bound of 8/10 at alpha = 0.05 is below 0.5.
C9_ScenarioLeavesCHHUncalled == (pc = "done" /\ NoMates) => ScenarioCounts(0)

C9_Witness ==
    /\ pc = "done" /\ NoMates /\ Len(out) = 1
    /\ stream[3] = ScenarioCHH /\ stream[4] = ScenarioCpG
    /\ is_cpg(stream[1])

\* ------------------------------------------------------------- Wilson interval
Abs(x) == IF x < 0 THEN -x ELSE x

====
